---- MODULE Spec2Model ----
(***************************************************************************)
(* Model of the voice-assistant WebSocket server (main.py, database.py).   *)
(*                                                                         *)
(* One handler task (websocket_endpoint) per connection runs on a single   *)
(* asyncio event loop.  A handler is suspended at its awaits (receive_text,*)
(* the History Store calls, send_text) and holds the loop while it is in a *)
(* synchronous OpenAI call (transcription, completion, speech).            *)
(*                                                                         *)
(* Texts are sequences of tokens; the token APOLOGY stands for the         *)
(* characters "I'm sorry" and WS for a run of whitespace, so that          *)
(* str.startswith and str.strip are computed, not assumed.                 *)
(* Byte strings are sequences over 0..255, base64 text is a sequence of    *)
(* alphabet indices 0..63 with PAD for '='.                                *)
(***************************************************************************)
EXTENDS Integers, Sequences, FiniteSets, TLC

\* ------------------------------------------------------------------ bounds
\* total number of inbound frames the handlers read in one behaviour
MaxFrames == 2

\* the websocket objects (one per client connection)
Conns == {"c1", "c2"}

\* the values uuid.uuid4() can return
SessionIds == {"u1", "u2"}

\* ------------------------------------------------------------------ texts
APOLOGY == "I'm sorry"
WS == " "

StartsWith(text, prefix) ==
    /\ Len(text) >= Len(prefix)
    /\ SubSeq(text, 1, Len(prefix)) = prefix

RECURSIVE LStrip(_)
LStrip(text) ==
    IF text # <<>> /\ Head(text) = WS THEN LStrip(Tail(text)) ELSE text

RECURSIVE RStrip(_)
RStrip(text) ==
    IF text # <<>> /\ text[Len(text)] = WS
    THEN RStrip(SubSeq(text, 1, Len(text) - 1))
    ELSE text

\* str.strip()
Strip(text) == RStrip(LStrip(text))

\* ------------------------------------------------------------------ base64
PAD == 64

RECURSIVE EncodeQuads(_)
EncodeQuads(bytes) ==
    IF bytes = <<>> THEN <<>>
    ELSE IF Len(bytes) = 1 THEN
        << bytes[1] \div 4, (bytes[1] % 4) * 16, PAD, PAD >>
    ELSE IF Len(bytes) = 2 THEN
        << bytes[1] \div 4,
           (bytes[1] % 4) * 16 + bytes[2] \div 16,
           (bytes[2] % 16) * 4,
           PAD >>
    ELSE
        << bytes[1] \div 4,
           (bytes[1] % 4) * 16 + bytes[2] \div 16,
           (bytes[2] % 16) * 4 + bytes[3] \div 64,
           bytes[3] % 64 >>
        \o EncodeQuads(SubSeq(bytes, 4, Len(bytes)))

\* base64.b64encode(speech_data).decode('utf-8')
b64encode(bytes) == EncodeQuads(bytes)

RECURSIVE DecodeQuads(_)
DecodeQuads(s) ==
    IF Len(s) < 4 THEN <<>>
    ELSE
        LET b1 == s[1] * 4 + s[2] \div 16
            b2 == (s[2] % 16) * 16 + s[3] \div 4
            b3 == (s[3] % 4) * 64 + s[4]
        IN  IF s[3] = PAD THEN << b1 >>
            ELSE IF s[4] = PAD THEN << b1, b2 >>
            ELSE << b1, b2, b3 >> \o DecodeQuads(SubSeq(s, 5, Len(s)))

\* the text is a whole number of quads, padded only at the end of the last
B64WellFormed(s) ==
    /\ Len(s) % 4 = 0
    /\ \A i \in 1..Len(s) :
          s[i] = PAD => /\ i > Len(s) - 2
                        /\ i > 2
                        /\ (i = Len(s) - 1 => s[Len(s)] = PAD)

\* base64.b64decode(audio_base64): the bytes, or binascii.Error
b64decode(s) ==
    IF B64WellFormed(s)
    THEN [ok |-> TRUE, bytes |-> DecodeQuads(s)]
    ELSE [ok |-> FALSE, bytes |-> <<>>]

\* ------------------------------------------------------------------ JSON
\* a field of a decoded JSON object: absent, a string or a number
Absent == [k |-> "absent", v |-> <<>>]
Str(s) == [k |-> "str", v |-> s]
Num(n) == [k |-> "num", v |-> <<n>>]

\* Python truthiness of the value of message_data.get(field, "")
Truthy(val) == val.k # "absent" /\ val.v # <<>>

\* the audio fields a client may send: "", "TQ==" (one byte), "A" (not
\* decodable) and the number 5
AudioFields == { Str(<<>>), Str(<<19, 16, PAD, PAD>>), Str(<<0>>), Num(5) }

\* the message fields a client may send: "", "Hi" and the number 5
MessageFields == { Str(<<>>), Str(<<"Hi">>), Num("5") }

\* Inbound frames: text that json.loads rejects, a JSON value that is no
\* object (a list, a number, null), and JSON objects by their "type".
Frame(json, type, audio, message) ==
    [json |-> json, type |-> type, audio |-> audio, message |-> message]

NoFrame == Frame("none", "none", Absent, Absent)

Frames ==
    { Frame("invalid", "none", Absent, Absent),
      Frame("nonobject", "none", Absent, Absent),
      Frame("object", "ping", Absent, Absent),
      Frame("object", "other", Absent, Absent),
      Frame("object", "none", Absent, Absent) }
    \cup { Frame("object", "audio_data", a, Absent) : a \in AudioFields }
    \cup { Frame("object", "voice_message", Absent, m) : m \in MessageFields }

\* what the mocked ports may answer
RawTranscripts == { <<"Hi">>, <<WS>>, <<APOLOGY, " I am late">> }
RawReplies == { <<"Hello there.", WS>> }
SpeechBytes == { <<>>, <<77>> }

\* ------------------------------------------------------------------ state
VARIABLES
    client,              \* main.py: the OpenAI client, FALSE when None
    active_connections,  \* ConnectionManager.active_connections
    client_sessions,     \* ConnectionManager.client_sessions
    conversations,       \* the MongoDB collection, documents in insertion order
    pc,                  \* where each handler task stands
    peer,                \* whether the client end of the socket is still there
    session_id,          \* websocket_endpoint local
    message_data,        \* websocket_endpoint local: the frame being handled
    transcribed_text,    \* websocket_endpoint local
    ai_response,         \* websocket_endpoint local
    messages,            \* get_ai_response_async local: the prompt of the
                         \* completion call in progress
    speech_data,         \* websocket_endpoint local
    response,            \* websocket_endpoint local: the frame to send
    calls,               \* port and History Store calls made for the frame
    out,                 \* frames written to each socket for the frame
    nrecv,               \* frames read so far
    ret                  \* the last direct call of a registry or History
                         \* Store method, with what it returned or raised

vars == << client, active_connections, client_sessions, conversations, pc,
           peer, session_id, message_data, transcribed_text, ai_response,
           messages, speech_data, response, calls, out, nrecv, ret >>

locals == << transcribed_text, ai_response, messages, speech_data >>
registry == << active_connections, client_sessions >>

\* the handler is inside a synchronous OpenAI call: the event loop is held
BlockingPcs == { "transcribe", "complete", "synth" }

\* the event loop can run handler c
LoopFree(c) == \A d \in Conns \ {c} : pc[d] \notin BlockingPcs

\* a direct call and its outcome
Call(op, conn, sid, k, entry, raised, ok, msgs) ==
    [op |-> op, conn |-> conn, sid |-> sid, k |-> k, entry |-> entry,
     raised |-> raised, ok |-> ok, again |-> FALSE, msgs |-> msgs]

NoEntry == [user_message |-> Absent, ai_response |-> <<>>,
            transcription |-> Absent]

NoCall == Call("none", "none", "none", 0, NoEntry, "none", FALSE, <<>>)

\* ------------------------------------------------------------------ frames out
NoResponse ==
    [type |-> "none", message |-> <<>>, audio |-> Absent,
     transcription |-> Absent, session_id |-> "none", timestamp |-> FALSE]

\* main.py 223-230
AudioReply(c, text, reply, speech) ==
    [type |-> "ai_response", message |-> reply,
     audio |-> Str(IF speech # <<>> THEN b64encode(speech) ELSE <<>>),
     transcription |-> Str(text), session_id |-> session_id[c],
     timestamp |-> TRUE]

\* mutant: the text reply echoes the typed message as its transcription
TextReplyWithTranscription(c, reply, speech) ==
    [type |-> "ai_response", message |-> reply,
     audio |-> Str(IF speech # <<>> THEN b64encode(speech) ELSE <<>>),
     transcription |-> message_data[c].message, session_id |-> session_id[c],
     timestamp |-> TRUE]

\* main.py 269-275
TextReply(c, reply, speech) ==
    [type |-> "ai_response", message |-> reply,
     audio |-> Str(IF speech # <<>> THEN b64encode(speech) ELSE <<>>),
     transcription |-> Absent, session_id |-> session_id[c],
     timestamp |-> TRUE]

\* main.py 233-238
TranscriptionError(c, text) ==
    [type |-> "error", message |-> text, audio |-> Absent,
     transcription |-> Absent, session_id |-> session_id[c],
     timestamp |-> TRUE]

\* main.py 244-248
AudioError(c, e) ==
    [type |-> "error", message |-> <<"Error processing audio: ", e>>,
     audio |-> Absent, transcription |-> Absent,
     session_id |-> session_id[c], timestamp |-> FALSE]

\* mutant: the pong carries the registry's default instead of the session
PongWithoutSession(c) ==
    [type |-> "pong", message |-> <<>>, audio |-> Absent,
     transcription |-> Absent, session_id |-> "unknown", timestamp |-> TRUE]

\* main.py 280-284
PongResponse(c) ==
    [type |-> "pong", message |-> <<>>, audio |-> Absent,
     transcription |-> Absent, session_id |-> session_id[c],
     timestamp |-> TRUE]

\* main.py 288-292
JsonError(c) ==
    [type |-> "error", message |-> <<"Invalid JSON format">>,
     audio |-> Absent, transcription |-> Absent,
     session_id |-> session_id[c], timestamp |-> FALSE]

\* ------------------------------------------------------------------ registry
\* list.remove(x): the list without the first occurrence of x
RECURSIVE ListRemove(_, _)
ListRemove(list, x) ==
    IF list = <<>> THEN <<>>
    ELSE IF Head(list) = x THEN Tail(list)
    ELSE <<Head(list)>> \o ListRemove(Tail(list), x)

\* dict.pop(key, None)
DictPop(dict, key) == [k \in DOMAIN dict \ {key} |-> dict[k]]

\* dict[key] = value
DictSet(dict, key, value) ==
    [k \in DOMAIN dict \cup {key} |-> IF k = key THEN value ELSE dict[k]]

\* x in list
ListHas(list, x) == \E i \in 1..Len(list) : list[i] = x

\* ConnectionManager.disconnect as a method of its own: list.remove raises
\* ValueError when the connection is not in the list, before the pop runs
disconnect(list, dict, websocket) ==
    IF ListHas(list, websocket)
    THEN [raised |-> "none", active_connections |-> ListRemove(list, websocket),
          client_sessions |-> DictPop(dict, websocket)]
    ELSE [raised |-> "ValueError", active_connections |-> list,
          client_sessions |-> dict]

\* mutant: the identifier is not unique
uuid4Reused == SessionIds

\* uuid.uuid4(): an identifier no earlier call returned.  The identifiers
\* are interchangeable, so the model takes one representative of the unused
\* ones.
uuid4 ==
    LET unused == SessionIds \ { session_id[c] : c \in Conns }
    IN  IF unused = {} THEN {} ELSE { CHOOSE u \in unused : TRUE }

\* ------------------------------------------------------------------ History Store
\* the first document of the collection with this session_id, 0 if none
RECURSIVE FindFrom(_, _, _)
FindFrom(coll, sid, i) ==
    IF i > Len(coll) THEN 0
    ELSE IF coll[i].session_id = sid THEN i
    ELSE FindFrom(coll, sid, i + 1)

find_one(coll, sid) == FindFrom(coll, sid, 1)

\* mutant: $push with $position 0, the newest exchange first
add_messagePrepend(coll, sid, user_message, reply, transcription) ==
    LET entry == [user_message |-> user_message, ai_response |-> reply,
                  transcription |-> transcription]
        i == find_one(coll, sid)
    IN  IF i = 0
        THEN Append(coll, [session_id |-> sid, messages |-> <<entry>>])
        ELSE [coll EXCEPT ![i].messages = <<entry>> \o @]

\* mutant: update_one with an empty filter, which matches the first document
\* of the collection whatever its session
add_messageAnySession(coll, sid, user_message, reply, transcription) ==
    LET entry == [user_message |-> user_message, ai_response |-> reply,
                  transcription |-> transcription]
    IN  IF coll = <<>>
        THEN Append(coll, [session_id |-> sid, messages |-> <<entry>>])
        ELSE [coll EXCEPT ![1].messages = Append(@, entry)]

\* mutant: update_one without upsert
add_messageNoUpsert(coll, sid, user_message, reply, transcription) ==
    LET entry == [user_message |-> user_message, ai_response |-> reply,
                  transcription |-> transcription]
        i == find_one(coll, sid)
    IN  IF i = 0 THEN coll
        ELSE [coll EXCEPT ![i].messages = Append(@, entry)]

\* MongoDatabase.add_message: update_one with $push and upsert=True
add_message(coll, sid, user_message, reply, transcription) ==
    LET entry == [user_message |-> user_message, ai_response |-> reply,
                  transcription |-> transcription]
        i == find_one(coll, sid)
    IN  IF i = 0
        THEN Append(coll, [session_id |-> sid, messages |-> <<entry>>])
        ELSE [coll EXCEPT ![i].messages = Append(@, entry)]

\* the projection {"messages": {"$slice": n}}: the first n elements when
\* n >= 0, the last -n when n < 0
Slice(seq, n) ==
    IF n >= 0 THEN SubSeq(seq, 1, IF n < Len(seq) THEN n ELSE Len(seq))
    ELSE SubSeq(seq, (IF Len(seq) + n < 0 THEN 0 ELSE Len(seq) + n) + 1, Len(seq))

\* mutant: the projection {"$slice": limit}, the oldest entries
get_conversation_historyOldest(coll, sid, limit) ==
    LET i == find_one(coll, sid)
    IN  IF i = 0 THEN <<>> ELSE Slice(coll[i].messages, limit)

\* MongoDatabase.get_conversation_history
get_conversation_history(coll, sid, limit) ==
    LET i == find_one(coll, sid)
    IN  IF i = 0 THEN <<>> ELSE Slice(coll[i].messages, 0 - limit)

\* MongoDatabase.create_conversation: insert_one, whatever the collection
\* already holds for this session_id
create_conversation(coll, sid) ==
    Append(coll, [session_id |-> sid, messages |-> <<>>])

\* MongoDatabase.delete_conversation: delete_one removes the first matching
\* document; the method returns deleted_count > 0
delete_conversation(coll, sid) ==
    LET i == find_one(coll, sid)
    IN  IF i = 0 THEN [deleted |-> FALSE, coll |-> coll]
        ELSE [deleted |-> TRUE,
              coll |-> SubSeq(coll, 1, i - 1) \o SubSeq(coll, i + 1, Len(coll))]

RECURSIVE FormatExchanges(_)
FormatExchanges(msgs) ==
    IF msgs = <<>> THEN <<>>
    ELSE <<"User: ">> \o Head(msgs).user_message.v \o <<"\n">>
         \o <<"Assistant: ">> \o Head(msgs).ai_response \o <<"\n">>
         \o FormatExchanges(Tail(msgs))

\* MongoDatabase.get_conversation_context
get_conversation_context(coll, sid, context_limit) ==
    LET msgs == get_conversation_history(coll, sid, context_limit)
    IN  IF msgs = <<>> THEN <<>>
        ELSE <<"Previous conversation:\n">> \o FormatExchanges(msgs)

\* main.py 140: the number of exchanges asked for as context
ContextLimit == 3

\* ------------------------------------------------------------------ pipeline
\* transcribe_audio without a client (main.py 85-87)
SpeechUnavailable ==
    <<APOLOGY, ", the speech recognition service is not available right now.">>

\* transcribe_audio when the call raised (main.py 111-118)
TranscribeFailed(e) == <<APOLOGY, ", I couldn't understand the audio: ", e>>

\* get_ai_response_async without a client (main.py 122-124)
AiUnavailable ==
    <<APOLOGY, ", the AI service is not available right now. Please check that your OpenAI API key is configured correctly.">>

\* get_ai_response_async when anything in its try block raised (main.py 158-160)
AiFailed(e) == <<APOLOGY, ", I encountered an error: ", e>>

SystemPrompt == <<"You are a helpful voice assistant.">>

\* main.py 130-147: the prompt, with the context block when it is not empty
BuildMessages(context, user_message) ==
    << [role |-> "system", content |-> SystemPrompt] >>
    \o (IF context # <<>> THEN << [role |-> "system", content |-> context] >>
        ELSE <<>>)
    \o << [role |-> "user", content |-> user_message] >>

\* mutant: the apology prefix is not looked at
TranscriptionUsableNonEmpty(text) == text # <<>>

\* main.py 208: the transcription is taken as the user's words
TranscriptionUsable(text) == text # <<>> /\ ~StartsWith(text, <<APOLOGY>>)

\* the first argument of get_ai_response_async and of db.add_message
UserMessage(c) ==
    IF message_data[c].type = "audio_data" THEN Str(transcribed_text[c])
    ELSE message_data[c].message

\* mutant: a reply without speech is turned into an error frame
ReplyOrSynthesisError(c, speech) ==
    IF speech = <<>>
    THEN [type |-> "error", message |-> <<"Speech synthesis failed">>,
          audio |-> Absent, transcription |-> Absent,
          session_id |-> session_id[c], timestamp |-> FALSE]
    ELSE IF message_data[c].type = "audio_data"
    THEN AudioReply(c, transcribed_text[c], ai_response[c], speech)
    ELSE TextReply(c, ai_response[c], speech)

\* the frame of the reply (main.py 223-230 and 269-275)
Reply(c, speech) ==
    IF message_data[c].type = "audio_data"
    THEN AudioReply(c, transcribed_text[c], ai_response[c], speech)
    ELSE TextReply(c, ai_response[c], speech)

\* mutant: without a client the handler takes the apology for final and
\* skips the history write
AiEntrySkipsAppend(user_message) ==
    IF ~client THEN [pc |-> "synth", reply |-> AiUnavailable]
    ELSE IF user_message.k # "str"
    THEN [pc |-> "append", reply |-> AiFailed("TypeError")]
    ELSE [pc |-> "context", reply |-> <<>>]

\* get_ai_response_async up to its first await: where the handler goes next
\* and the reply it already has (main.py 122-128)
AiEntry(user_message) ==
    IF ~client THEN [pc |-> "append", reply |-> AiUnavailable]
    ELSE IF user_message.k # "str"
    THEN [pc |-> "append", reply |-> AiFailed("TypeError")]
    ELSE [pc |-> "context", reply |-> <<>>]

\* ------------------------------------------------------------------ dispatch
\* Where the handler goes next and what it has computed on the way, from one
\* port call or await to the next.
At(p) == [pc |-> p, response |-> NoResponse, text |-> <<>>, reply |-> <<>>]

\* mutant: the decode error is swallowed
DispatchInvalidSilent(c) == At("recv")

\* main.py 287-293: json.loads raised JSONDecodeError
DispatchInvalid(c) == [At("send") EXCEPT !.response = JsonError(c)]

\* main.py 195: message_data.get on a list, a number, a string or None
\* raises AttributeError, which no except clause of the handler names
DispatchNonObject(c) == At("crashed")

\* mutant: the error frame of a failed transcription is built but not sent
OnTranscribedSilent(c, text) ==
    IF TranscriptionUsable(text)
    THEN [At(AiEntry(Str(text)).pc) EXCEPT
             !.text = text, !.reply = AiEntry(Str(text)).reply]
    ELSE [At("recv") EXCEPT
             !.text = text, !.response = TranscriptionError(c, text)]

\* main.py 208-238: after transcribe_audio returned text
OnTranscribed(c, text) ==
    IF TranscriptionUsable(text)
    THEN [At(AiEntry(Str(text)).pc) EXCEPT
             !.text = text, !.reply = AiEntry(Str(text)).reply]
    ELSE [At("send") EXCEPT
             !.text = text, !.response = TranscriptionError(c, text)]

\* main.py 242-249: the audio could not be decoded
DecodeFailed(c, e) == [At("send_err") EXCEPT !.response = AudioError(c, e)]

\* main.py 197-207: audio_data up to the transcription call; without a
\* client transcribe_audio returns its sentinel at once (main.py 85-87)
DispatchAudio(c, f) ==
    IF ~Truthy(f.audio) THEN At("recv")
    ELSE IF f.audio.k # "str" THEN DecodeFailed(c, "TypeError")
    ELSE IF ~b64decode(f.audio.v).ok THEN DecodeFailed(c, "binascii.Error")
    ELSE IF ~client THEN OnTranscribed(c, SpeechUnavailable)
    ELSE At("transcribe")

\* main.py 251-256: voice_message up to the first await of the completion
DispatchVoice(c, f) ==
    IF ~Truthy(f.message) THEN At("recv")
    ELSE [At(AiEntry(f.message).pc) EXCEPT !.reply = AiEntry(f.message).reply]

\* main.py 278-285
DispatchPing(c) == [At("send") EXCEPT !.response = PongResponse(c)]

\* mutant: an else branch answers an unknown type with an error
DispatchOtherError(c) ==
    [At("send") EXCEPT
        !.response = [type |-> "error", message |-> <<"Unknown message type">>,
                      audio |-> Absent, transcription |-> Absent,
                      session_id |-> session_id[c], timestamp |-> FALSE]]

\* main.py 197, 251, 278: no branch of the if chain matches
DispatchOther(c) == At("recv")

\* main.py 194-285 from json.loads to the first port call or await
Dispatch(c, f) ==
    IF f.json = "invalid" THEN DispatchInvalid(c)
    ELSE IF f.json = "nonobject" THEN DispatchNonObject(c)
    ELSE IF f.type = "audio_data" THEN DispatchAudio(c, f)
    ELSE IF f.type = "voice_message" THEN DispatchVoice(c, f)
    ELSE IF f.type = "ping" THEN DispatchPing(c)
    ELSE DispatchOther(c)

\* mutant: db.add_message is not wrapped in try/except
AfterAppendUncaught(c, ok) ==
    IF ~ok THEN
        IF message_data[c].type = "audio_data"
        THEN [At("send_err") EXCEPT !.response = AudioError(c, "PyMongoError")]
        ELSE At("crashed")
    ELSE IF client THEN [At("synth") EXCEPT !.response = response[c]]
    ELSE [At("send") EXCEPT !.response = Reply(c, <<>>)]

\* main.py 213-220, 259-266: after db.add_message returned (ok) or raised,
\* the exception being logged only; generate_speech returns b"" at once
\* without a client
AfterAppend(c, ok) ==
    IF client THEN [At("synth") EXCEPT !.response = response[c]]
    ELSE [At("send") EXCEPT !.response = Reply(c, <<>>)]

\* a call is logged by its name; an append that raised as "append!"
Logged(name, ok) == IF ok THEN name ELSE name \o "!"

\* ------------------------------------------------------------------ Init
Init ==
    /\ client \in BOOLEAN
    /\ active_connections = <<>>
    /\ client_sessions = << >>
    /\ conversations = <<>>
    /\ pc = [c \in Conns |-> "init"]
    /\ peer = [c \in Conns |-> TRUE]
    /\ session_id = [c \in Conns |-> "none"]
    /\ message_data = [c \in Conns |-> NoFrame]
    /\ transcribed_text = [c \in Conns |-> <<>>]
    /\ ai_response = [c \in Conns |-> <<>>]
    /\ messages = [c \in Conns |-> <<>>]
    /\ speech_data = [c \in Conns |-> <<>>]
    /\ response = [c \in Conns |-> NoResponse]
    /\ calls = [c \in Conns |-> <<>>]
    /\ out = [c \in Conns |-> <<>>]
    /\ nrecv = 0
    /\ ret = NoCall

\* ------------------------------------------------------------------ handler steps
\* The connections are interchangeable objects: they are named in the order
\* in which the server accepts them.
AcceptOrder == << "c1", "c2" >>

NextAccepted(c) ==
    \E i \in 1..Len(AcceptOrder) :
        /\ AcceptOrder[i] = c
        /\ \A j \in 1..(i - 1) : pc[AcceptOrder[j]] # "init"

\* ConnectionManager.connect, called at main.py 186
Connect(c) ==
    /\ pc[c] = "init"
    /\ NextAccepted(c)
    /\ LoopFree(c)
    /\ \E u \in uuid4 :
          /\ active_connections' = Append(active_connections, c)
          /\ client_sessions' = DictSet(client_sessions, c, u)
          /\ session_id' = [session_id EXCEPT ![c] = u]
    /\ pc' = [pc EXCEPT ![c] = "recv"]
    /\ UNCHANGED << client, ret, conversations, peer, message_data, locals,
                    response, calls, out, nrecv >>

\* ConnectionManager.disconnect
ManagerDisconnect(c) ==
    /\ active_connections' = ListRemove(active_connections, c)
    /\ client_sessions' = DictPop(client_sessions, c)

\* the locals of handler c and what was observed for its frame
frame_state == << message_data, locals, response, calls, out >>

\* the handler function returns or is unwound: its locals are gone
DropFrame(c) ==
    /\ message_data' = [message_data EXCEPT ![c] = NoFrame]
    /\ transcribed_text' = [transcribed_text EXCEPT ![c] = <<>>]
    /\ ai_response' = [ai_response EXCEPT ![c] = <<>>]
    /\ messages' = [messages EXCEPT ![c] = <<>>]
    /\ speech_data' = [speech_data EXCEPT ![c] = <<>>]
    /\ response' = [response EXCEPT ![c] = NoResponse]
    /\ calls' = [calls EXCEPT ![c] = <<>>]
    /\ out' = [out EXCEPT ![c] = <<>>]

\* An exception leaves the while loop (main.py 187-296): WebSocketDisconnect
\* is caught at 295 and the connection is unregistered, anything else ends
\* the task with the registry as it is.
HandlerExit(c, e) ==
    /\ IF e = "WebSocketDisconnect"
       THEN /\ ManagerDisconnect(c)
            /\ pc' = [pc EXCEPT ![c] = "closed"]
       ELSE /\ UNCHANGED registry
            /\ pc' = [pc EXCEPT ![c] = "crashed"]
    /\ DropFrame(c)

\* mutant: frames are read while the previous one is still being handled
\* (the handling is spawned as a task of its own)
AtReceiveOrBusy(c) == pc[c] \notin { "init", "closed", "crashed" }

\* main.py 188-190: the handler reads a frame only at the top of its loop,
\* when the handling of the previous frame has returned
AtReceive(c) == pc[c] = "recv"

\* websocket.receive_text returns a frame (main.py 190) and the handler runs
\* up to its next port call or await.  The locals of the previous iteration
\* are dead and start afresh.  A frame that ends the task (DispatchNonObject)
\* stays in message_data as the record of what ended it.
Receive(c) ==
    /\ AtReceive(c)
    /\ peer[c]
    /\ LoopFree(c)
    /\ nrecv < MaxFrames
    /\ \E f \in Frames :
          LET d == Dispatch(c, f)
          IN  /\ message_data' = [message_data EXCEPT ![c] = f]
              /\ pc' = [pc EXCEPT ![c] = d.pc]
              /\ response' = [response EXCEPT ![c] = d.response]
              /\ transcribed_text' = [transcribed_text EXCEPT ![c] = d.text]
              /\ ai_response' = [ai_response EXCEPT ![c] = d.reply]
    /\ messages' = [messages EXCEPT ![c] = <<>>]
    /\ speech_data' = [speech_data EXCEPT ![c] = <<>>]
    /\ calls' = [calls EXCEPT ![c] = <<>>]
    /\ out' = [out EXCEPT ![c] = <<>>]
    /\ nrecv' = nrecv + 1
    /\ UNCHANGED << client, ret, registry, conversations, peer, session_id >>

\* websocket.receive_text raises WebSocketDisconnect (main.py 190, 295-296)
RecvDisconnect(c) ==
    /\ pc[c] = "recv"
    /\ ~peer[c]
    /\ LoopFree(c)
    /\ HandlerExit(c, "WebSocketDisconnect")
    /\ UNCHANGED << client, ret, conversations, peer, session_id, nrecv >>

\* the client goes away
ClientClose(c) ==
    /\ pc[c] \notin { "init", "closed", "crashed" }
    /\ peer[c]
    /\ peer' = [peer EXCEPT ![c] = FALSE]
    /\ UNCHANGED << client, ret, registry, conversations, pc, session_id,
                    message_data, locals, response, calls, out, nrecv >>

\* client.audio.transcriptions.create returns or raises (main.py 89-118), and
\* the handler goes on to main.py 208
Transcribe(c) ==
    /\ pc[c] = "transcribe"
    /\ LoopFree(c)
    /\ \E r \in [ok : {TRUE}, text : RawTranscripts]
               \cup { [ok |-> FALSE, text |-> <<>>] } :
          LET text == IF r.ok THEN Strip(r.text)
                      ELSE TranscribeFailed("APIError")
              d == OnTranscribed(c, text)
          IN  /\ transcribed_text' = [transcribed_text EXCEPT ![c] = d.text]
              /\ pc' = [pc EXCEPT ![c] = d.pc]
              /\ ai_response' = [ai_response EXCEPT ![c] = d.reply]
              /\ response' = [response EXCEPT ![c] = d.response]
              /\ calls' = [calls EXCEPT
                              ![c] = Append(@, "transcribe")]
    /\ UNCHANGED << client, ret, registry, conversations, peer, session_id,
                    message_data, messages, speech_data, out, nrecv >>

\* mutant: no try around the context read; what it raises is caught by the
\* outer except of get_ai_response_async and becomes the reply
OnContextUncaught(c, ok) ==
    IF ok
    THEN [pc |-> "complete",
          messages |-> BuildMessages(
                           get_conversation_context(
                               conversations, session_id[c], ContextLimit),
                           UserMessage(c).v),
          reply |-> ai_response[c]]
    ELSE [pc |-> "append", messages |-> <<>>,
          reply |-> AiFailed("PyMongoError")]

\* main.py 137-147: the context read in its own try; when it raises, a
\* warning is logged and the prompt is built without a context block
OnContext(c, ok) ==
    [pc |-> "complete",
     messages |-> BuildMessages(
                      IF ok
                      THEN get_conversation_context(
                               conversations, session_id[c], ContextLimit)
                      ELSE <<>>,
                      UserMessage(c).v),
     reply |-> ai_response[c]]

\* await db.get_conversation_context returns (ok) or raises (main.py 138-147)
ContextReturns(c, ok) ==
    /\ pc[c] = "context"
    /\ LoopFree(c)
    /\ messages' = [messages EXCEPT ![c] = OnContext(c, ok).messages]
    /\ ai_response' = [ai_response EXCEPT ![c] = OnContext(c, ok).reply]
    /\ calls' = [calls EXCEPT ![c] = Append(@, "context")]
    /\ pc' = [pc EXCEPT ![c] = OnContext(c, ok).pc]
    /\ UNCHANGED << client, ret, registry, conversations, peer, session_id,
                    message_data, transcribed_text, speech_data,
                    response, out, nrecv >>

Context(c) == \E ok \in BOOLEAN : ContextReturns(c, ok)

\* client.chat.completions.create returns or raises (main.py 149-160), and
\* get_ai_response_async returns: its prompt is gone
Complete(c) ==
    /\ pc[c] = "complete"
    /\ LoopFree(c)
    /\ \E r \in [ok : {TRUE}, text : RawReplies]
               \cup { [ok |-> FALSE, text |-> <<>>] } :
          /\ ai_response' = [ai_response EXCEPT
                                ![c] = IF r.ok THEN Strip(r.text)
                                       ELSE AiFailed("APIError")]
          /\ calls' = [calls EXCEPT ![c] = Append(@, "complete")]
    /\ messages' = [messages EXCEPT ![c] = <<>>]
    /\ pc' = [pc EXCEPT ![c] = "append"]
    /\ UNCHANGED << client, ret, registry, conversations, peer, session_id,
                    message_data, transcribed_text, speech_data, response,
                    out, nrecv >>

\* await db.add_message returns or raises (main.py 213-216, 259-262), and the
\* handler goes on to generate_speech, which returns b"" without a client
AddMessage(c) ==
    /\ pc[c] = "append"
    /\ LoopFree(c)
    /\ \E ok \in BOOLEAN :
          /\ conversations' =
                IF ok
                THEN add_message(conversations, session_id[c], UserMessage(c),
                                 ai_response[c],
                                 IF message_data[c].type = "audio_data"
                                 THEN Str(transcribed_text[c]) ELSE Absent)
                ELSE conversations
          /\ pc' = [pc EXCEPT ![c] = AfterAppend(c, ok).pc]
          /\ response' = [response EXCEPT ![c] = AfterAppend(c, ok).response]
          /\ calls' = [calls EXCEPT ![c] = Append(@, Logged("append", ok))]
    /\ UNCHANGED << client, ret, registry, peer, session_id, message_data, locals,
                    out, nrecv >>

\* client.audio.speech.create returns or raises (main.py 168-182); the reply
\* frame is built (main.py 220-230, 266-275)
Synthesize(c) ==
    /\ pc[c] = "synth"
    /\ LoopFree(c)
    /\ \E r \in [ok : {TRUE}, bytes : SpeechBytes]
               \cup { [ok |-> FALSE, bytes |-> <<>>] } :
          LET speech == IF r.ok THEN r.bytes ELSE <<>>
          IN  /\ speech_data' = [speech_data EXCEPT ![c] = speech]
              /\ response' = [response EXCEPT ![c] = Reply(c, speech)]
              /\ calls' = [calls EXCEPT ![c] = Append(@, "synth")]
    /\ pc' = [pc EXCEPT ![c] = "send"]
    /\ UNCHANGED << client, ret, registry, conversations, peer, session_id,
                    message_data, transcribed_text, ai_response, messages,
                    out, nrecv >>

\* what websocket.send_text does once the client is gone: the frame is
\* dropped without an error, or the call raises
SendFailures == { "lost", "WebSocketDisconnect", "RuntimeError" }

\* ConnectionManager.send_personal_message at main.py 240, 276, 285, 293.
\* The send at 240 is inside the try of 201-249: what it raises is caught at
\* 242 and answered with a second send.
Send(c) ==
    /\ pc[c] = "send"
    /\ LoopFree(c)
    /\ IF peer[c]
       THEN /\ out' = [out EXCEPT ![c] = Append(@, response[c])]
            /\ pc' = [pc EXCEPT ![c] = "recv"]
            /\ UNCHANGED << registry, message_data, locals, response, calls >>
       ELSE \E e \in SendFailures :
               IF e = "lost"
               THEN /\ pc' = [pc EXCEPT ![c] = "recv"]
                    /\ UNCHANGED << registry, frame_state >>
               ELSE IF message_data[c].type = "audio_data"
               THEN /\ pc' = [pc EXCEPT ![c] = "send_err"]
                    /\ response' = [response EXCEPT ![c] = AudioError(c, e)]
                    /\ UNCHANGED << registry, message_data, locals, calls, out >>
               ELSE HandlerExit(c, e)
    /\ UNCHANGED << client, ret, conversations, peer, session_id, nrecv >>

\* ConnectionManager.send_personal_message at main.py 249, in the except
\* clause: what it raises leaves the loop
SendErr(c) ==
    /\ pc[c] = "send_err"
    /\ LoopFree(c)
    /\ IF peer[c]
       THEN /\ out' = [out EXCEPT ![c] = Append(@, response[c])]
            /\ pc' = [pc EXCEPT ![c] = "recv"]
            /\ UNCHANGED << registry, message_data, locals, response, calls >>
       ELSE \E e \in SendFailures :
               IF e = "lost"
               THEN /\ pc' = [pc EXCEPT ![c] = "recv"]
                    /\ UNCHANGED << registry, frame_state >>
               ELSE HandlerExit(c, e)
    /\ UNCHANGED << client, ret, conversations, peer, session_id, nrecv >>

Next ==
    \E c \in Conns :
        \/ Connect(c)
        \/ Receive(c)
        \/ RecvDisconnect(c)
        \/ ClientClose(c)
        \/ Transcribe(c)
        \/ Context(c)
        \/ Complete(c)
        \/ AddMessage(c)
        \/ Synthesize(c)
        \/ Send(c)
        \/ SendErr(c)

Spec == Init /\ [][Next]_vars

\* ------------------------------------------------------------------ direct calls
\* The registry and the History Store called method by method, as
\* test_mongo.py calls the store: any method, any argument, any order.
MaxStore == 4
MaxLimit == 2

Limits == (0 - 1) .. MaxLimit

\* what the collection holds: its documents plus their messages
RECURSIVE StoreSize(_)
StoreSize(coll) ==
    IF coll = <<>> THEN 0
    ELSE 1 + Len(Head(coll).messages) + StoreSize(Tail(coll))

\* the collection has room for an append to session s: one more message,
\* and one more document when s has none
RoomToAdd(s) ==
    StoreSize(conversations) + (IF find_one(conversations, s) = 0 THEN 2 ELSE 1)
        <= MaxStore

Entries ==
    { [user_message |-> Str(<<"Hi">>), ai_response |-> <<"Hello there.">>,
       transcription |-> Absent],
      [user_message |-> Str(<<"Bye">>), ai_response |-> <<"Goodbye.">>,
       transcription |-> Str(<<"Bye">>)] }

\* the registries ConnectionManager.connect builds: the connections in the
\* order they were accepted, each with an identifier of its own
Registries ==
    { r \in [list : {<<>>} \cup { <<c>> : c \in Conns }
                        \cup { <<c, d>> : c \in Conns, d \in Conns },
             dict : UNION { [D -> SessionIds] : D \in SUBSET Conns }] :
        /\ \A i, j \in 1..Len(r.list) : r.list[i] = r.list[j] => i = j
        /\ DOMAIN r.dict = { r.list[i] : i \in 1..Len(r.list) }
        /\ \A c, d \in DOMAIN r.dict : r.dict[c] = r.dict[d] => c = d }

handler_vars ==
    << client, pc, peer, session_id, message_data, locals, response, calls,
       out, nrecv >>

ApiInit ==
    /\ client = TRUE
    /\ \E r \in Registries :
          /\ active_connections = r.list
          /\ client_sessions = r.dict
          /\ pc = [c \in Conns |-> IF c \in DOMAIN r.dict THEN "recv" ELSE "init"]
          /\ session_id = [c \in Conns |->
                             IF c \in DOMAIN r.dict THEN r.dict[c] ELSE "none"]
    /\ conversations = <<>>
    /\ peer = [c \in Conns |-> TRUE]
    /\ message_data = [c \in Conns |-> NoFrame]
    /\ transcribed_text = [c \in Conns |-> <<>>]
    /\ ai_response = [c \in Conns |-> <<>>]
    /\ messages = [c \in Conns |-> <<>>]
    /\ speech_data = [c \in Conns |-> <<>>]
    /\ response = [c \in Conns |-> NoResponse]
    /\ calls = [c \in Conns |-> <<>>]
    /\ out = [c \in Conns |-> <<>>]
    /\ nrecv = 0
    /\ ret = NoCall

\* manager.disconnect(websocket)
ApiDisconnect(c) ==
    LET r == disconnect(active_connections, client_sessions, c)
    IN  /\ active_connections' = r.active_connections
        /\ client_sessions' = r.client_sessions
        /\ ret' = Call("disconnect", c, "none", 0, NoEntry, r.raised, FALSE, <<>>)
        /\ UNCHANGED << handler_vars, conversations >>

\* db.create_conversation(session_id)
ApiCreate(s) ==
    /\ StoreSize(conversations) < MaxStore
    /\ conversations' = create_conversation(conversations, s)
    /\ ret' = Call("create_conversation", "none", s, 0, NoEntry, "none", TRUE, <<>>)
    /\ UNCHANGED << handler_vars, registry >>

\* db.add_message(session_id, user_message, ai_response, transcription)
ApiAdd(s, e) ==
    /\ RoomToAdd(s)
    /\ conversations' = add_message(conversations, s, e.user_message,
                                    e.ai_response, e.transcription)
    /\ ret' = Call("add_message", "none", s, 0, e, "none", TRUE, <<>>)
    /\ UNCHANGED << handler_vars, registry >>

\* db.get_conversation_history(session_id, limit)
ApiHistory(s, k) ==
    /\ ret' = Call("get_conversation_history", "none", s, k, NoEntry, "none",
                   TRUE, get_conversation_history(conversations, s, k))
    /\ UNCHANGED << handler_vars, registry, conversations >>

\* db.delete_conversation(session_id)
ApiDelete(s) ==
    LET r == delete_conversation(conversations, s)
    IN  /\ conversations' = r.coll
        /\ ret' = Call("delete_conversation", "none", s, 0, NoEntry, "none",
                       r.deleted, <<>>)
        /\ UNCHANGED << handler_vars, registry >>

\* test_mongo.py 25-35: add_message, then get_conversation_history of the
\* same session
ApiAddThenHistory(s, e, k) ==
    LET coll == add_message(conversations, s, e.user_message, e.ai_response,
                            e.transcription)
    IN  /\ RoomToAdd(s)
        /\ conversations' = coll
        /\ ret' = Call("add_then_history", "none", s, k, e, "none", TRUE,
                       get_conversation_history(coll, s, k))
        /\ UNCHANGED << handler_vars, registry >>

\* delete_conversation of the same session twice in a row; `ok` is what the
\* first call returned, `again` what the second returned
ApiDeleteTwice(s) ==
    LET r1 == delete_conversation(conversations, s)
        r2 == delete_conversation(r1.coll, s)
    IN  /\ conversations' = r2.coll
        /\ ret' = [Call("delete_twice", "none", s, 0, NoEntry, "none",
                        r1.deleted, <<>>) EXCEPT !.again = r2.deleted]
        /\ UNCHANGED << handler_vars, registry >>

ApiNext ==
    \/ \E c \in Conns : ApiDisconnect(c)
    \/ \E s \in SessionIds : ApiCreate(s)
    \/ \E s \in SessionIds : \E e \in Entries : ApiAdd(s, e)
    \/ \E s \in SessionIds : \E k \in Limits : ApiHistory(s, k)
    \/ \E s \in SessionIds : ApiDelete(s)
    \/ \E s \in SessionIds : \E e \in Entries : \E k \in Limits :
          ApiAddThenHistory(s, e, k)
    \/ \E s \in SessionIds : ApiDeleteTwice(s)

ApiSpec == ApiInit /\ [][ApiNext]_vars

\* The event loop runs every task that is ready, and every call a handler
\* waits for returns or raises (the OpenAI and MongoDB clients time out).
Fairness ==
    \A c \in Conns :
        /\ WF_vars(Transcribe(c))
        /\ WF_vars(Context(c))
        /\ WF_vars(Complete(c))
        /\ WF_vars(AddMessage(c))
        /\ WF_vars(Synthesize(c))
        /\ WF_vars(Send(c))
        /\ WF_vars(SendErr(c))

FairSpec == Spec /\ Fairness

\* ------------------------------------------------------------------ properties
InCalls(c, name) == \E i \in 1..Len(calls[c]) : calls[c][i] = name

PipelineTypes == { "audio_data", "voice_message" }

\* handler c has finished the frame in message_data[c] and its client is
\* still there
Handled(c) == pc[c] = "recv" /\ peer[c] /\ message_data[c] # NoFrame

\* the audio or message field of the frame being handled
Payload(c) ==
    IF message_data[c].type = "audio_data" THEN message_data[c].audio
    ELSE message_data[c].message

\* C1: every frame written to the socket of connection c, or about to be,
\* carries the session identifier connect returned for c, which is the one
\* the registry holds for c and differs from that of every other connection.
C1_SessionIdMatchesConnection ==
    \A c \in Conns :
        /\ \A i \in 1..Len(out[c]) :
              /\ out[c][i].session_id = session_id[c]
              /\ out[c][i].session_id \in SessionIds
              /\ \A d \in Conns \ {c} : out[c][i].session_id # session_id[d]
              /\ c \in DOMAIN client_sessions
                    => client_sessions[c] = out[c][i].session_id
        /\ response[c] # NoResponse => response[c].session_id = session_id[c]

C1_Witness ==
    /\ out["c1"] # <<>> /\ out["c2"] # <<>>
    /\ out["c1"][1].type = "ai_response"
    /\ out["c2"][1].type = "pong"

\* C2: a handler task has ended only if its client has gone away (the
\* transport-level disconnect).
C2_HandlerEndsOnlyOnDisconnect ==
    \A c \in Conns : pc[c] \in { "closed", "crashed" } => ~peer[c]

\* C3 as stated: once an audio_data or voice_message frame is handled and the
\* client is still connected, exactly one frame was sent for it, an
\* ai_response or an error.
C3_EveryPipelineFrameAnswered ==
    \A c \in Conns :
        (Handled(c) /\ message_data[c].type \in PipelineTypes)
            => /\ Len(out[c]) = 1
               /\ out[c][1].type \in { "ai_response", "error" }

\* C3 amended: an audio_data frame with a non-empty audio field, or a
\* voice_message frame with a non-empty message field, is answered with
\* exactly one frame, an ai_response or an error; with an empty or missing
\* field it is answered with no frame.  Never more than one frame is sent.
C3_NonEmptyPipelineFrameAnswered ==
    \A c \in Conns :
        message_data[c].type \in PipelineTypes
            => /\ Len(out[c]) <= 1
               /\ Handled(c) =>
                     IF Truthy(Payload(c))
                     THEN /\ Len(out[c]) = 1
                          /\ out[c][1].type \in { "ai_response", "error" }
                     ELSE out[c] = <<>>

\* C3 amended, with its eventuality: the handling of a frame comes to an
\* end (the handler is back at receive_text, or its task has ended), and by
\* then the frame has been answered as C3_NonEmptyPipelineFrameAnswered says.
C3_PipelineFrameEventuallyAnswered ==
    /\ []C3_NonEmptyPipelineFrameAnswered
    /\ \A c \in Conns :
          (pc[c] \in { "transcribe", "context", "complete", "append", "synth",
                       "send", "send_err" })
              ~> (pc[c] \in { "recv", "closed", "crashed" })

C3_Witness ==
    \E c \in Conns :
        /\ Handled(c)
        /\ message_data[c].type = "audio_data"
        /\ InCalls(c, "transcribe")
        /\ Len(out[c]) = 1
        /\ out[c][1].type = "error"

\* the completion of the frame being handled failed: the call raised, or
\* there is no client
CompletionFailed(c) ==
    /\ message_data[c].type \in PipelineTypes
    /\ ai_response[c] \in { AiUnavailable, AiFailed("APIError") }

\* C4: when the completion failed, the frame sent is an error frame with the
\* session id, and the speech port is not called.
C4_CompletionFailureYieldsError ==
    \A c \in Conns :
        CompletionFailed(c)
            => /\ ~InCalls(c, "synth")
               /\ \A i \in 1..Len(out[c]) :
                     /\ out[c][i].type = "error"
                     /\ out[c][i].session_id = session_id[c]

\* the transcription of the audio_data frame being handled has returned
Transcribed(c) ==
    /\ message_data[c].type = "audio_data"
    /\ \/ InCalls(c, "transcribe")
       \/ transcribed_text[c] = SpeechUnavailable

\* C5: when the transcription of an audio_data frame is empty or begins with
\* the apology prefix, no completion, speech or History Store call is made,
\* and the one frame sent is an error frame whose message is the
\* transcription.
C5_UnusableTranscriptionYieldsError ==
    \A c \in Conns :
        ( /\ Transcribed(c)
          /\ \/ transcribed_text[c] = <<>>
             \/ StartsWith(transcribed_text[c], <<APOLOGY>>) )
            => /\ \A i \in 1..Len(calls[c]) : calls[c][i] = "transcribe"
               /\ Len(calls[c]) <= 1
               /\ Len(out[c]) <= 1
               /\ peer[c] => pc[c] \in { "send", "recv" }
               /\ Handled(c) =>
                     /\ Len(out[c]) = 1
                     /\ out[c][1].type = "error"
                     /\ out[c][1].message = transcribed_text[c]
                     /\ out[c][1].session_id = session_id[c]

C5_Witness ==
    \E c \in Conns :
        /\ Handled(c)
        /\ Transcribed(c)
        /\ transcribed_text[c] = <<APOLOGY, " I am late">>
        /\ Len(out[c]) = 1

\* C6: a frame that json.loads rejects is answered with exactly one error
\* frame carrying the session id, without any port or History Store call,
\* and the handler stays in its loop, registered.
C6_MalformedFrameYieldsOneError ==
    \A c \in Conns :
        message_data[c].json = "invalid"
            => /\ calls[c] = <<>>
               /\ Len(out[c]) <= 1
               /\ peer[c] => /\ pc[c] \in { "send", "recv" }
                             /\ c \in DOMAIN client_sessions
               /\ Handled(c) =>
                     /\ Len(out[c]) = 1
                     /\ out[c][1].type = "error"
                     /\ out[c][1].session_id = session_id[c]

C6_Witness ==
    \E c \in Conns :
        /\ Handled(c)
        /\ message_data[c].json = "invalid"
        /\ Len(out[c]) = 1

\* C7: a JSON object whose type is none of audio_data, voice_message, ping
\* (or is missing) is answered with no frame and no call, and the handler is
\* back at receive_text, registered.
C7_UnknownTypeIgnored ==
    \A c \in Conns :
        ( /\ message_data[c].json = "object"
          /\ message_data[c].type \notin { "audio_data", "voice_message", "ping" } )
            => /\ out[c] = <<>>
               /\ calls[c] = <<>>
               /\ response[c] = NoResponse
               /\ pc[c] \in { "recv", "closed" }
               /\ peer[c] => /\ pc[c] = "recv"
                             /\ c \in DOMAIN client_sessions

C7_Witness ==
    \E c \in Conns :
        /\ Handled(c)
        /\ message_data[c].json = "object"
        /\ message_data[c].type = "none"
        /\ nrecv = MaxFrames

\* C8: a ping is answered with exactly one pong carrying the session id,
\* without any port or History Store call, whatever was handled before.
C8_PingYieldsOnePong ==
    \A c \in Conns :
        message_data[c].type = "ping"
            => /\ calls[c] = <<>>
               /\ Len(out[c]) <= 1
               /\ peer[c] => pc[c] \in { "send", "recv" }
               /\ Handled(c) =>
                     /\ Len(out[c]) = 1
                     /\ out[c][1].type = "pong"
                     /\ out[c][1].session_id = session_id[c]

\* a pong on a connection whose previous frame went through the pipeline
C8_Witness ==
    \E c \in Conns :
        /\ Handled(c)
        /\ message_data[c].type = "ping"
        /\ Len(out[c]) = 1
        /\ find_one(conversations, session_id[c]) # 0

\* C9: when the completion succeeded and the speech call raised or returned
\* no bytes, the frame is an ai_response with the reply text and audio "".
C9_SynthesisFailureKeepsReply ==
    \A c \in Conns :
        ( /\ InCalls(c, "complete")
          /\ ai_response[c] \in { Strip(r) : r \in RawReplies }
          /\ InCalls(c, "synth")
          /\ speech_data[c] = <<>>
          /\ peer[c] )
            => /\ pc[c] \in { "send", "recv" }
               /\ response[c].type = "ai_response"
               /\ response[c].message = ai_response[c]
               /\ response[c].audio = Str(<<>>)
               /\ pc[c] = "recv" => out[c] = << response[c] >>

C9_Witness ==
    \E c \in Conns :
        /\ Handled(c)
        /\ InCalls(c, "synth")
        /\ speech_data[c] = <<>>
        /\ Len(out[c]) = 1
        /\ out[c][1].message = <<"Hello there.">>

\* the ai_response frame the locals of handler c determine
ExpectedReply(c) ==
    [type |-> "ai_response",
     message |-> ai_response[c],
     audio |-> Str(IF speech_data[c] = <<>> THEN <<>>
                   ELSE b64encode(speech_data[c])),
     transcription |-> IF message_data[c].type = "audio_data"
                       THEN Str(transcribed_text[c]) ELSE Absent,
     session_id |-> session_id[c],
     timestamp |-> TRUE]

\* C10: the append is attempted once, when the reply text is there and no
\* frame has been sent; whether it returned or raised, the handler goes on
\* and the one frame sent is the ai_response its locals determine.
C10_AppendFailureLeavesReply ==
    \A c \in Conns :
        /\ pc[c] = "append" =>
              /\ out[c] = <<>>
              /\ response[c] = NoResponse
              /\ \/ InCalls(c, "complete")
                 \/ ai_response[c] \in { AiUnavailable, AiFailed("TypeError") }
              /\ ~InCalls(c, "append") /\ ~InCalls(c, "append!")
              /\ ~InCalls(c, "synth")
        /\ (InCalls(c, "append") \/ InCalls(c, "append!")) =>
              /\ Len(out[c]) <= 1
              /\ peer[c] => pc[c] \in { "synth", "send", "recv" }
              /\ Handled(c) => out[c] = << ExpectedReply(c) >>

C10_Witness ==
    \E c \in Conns :
        /\ Handled(c)
        /\ InCalls(c, "append!")
        /\ out[c] = << ExpectedReply(c) >>
        /\ message_data[c].type = "audio_data"

\* the positions of a handler between reading a frame and finishing it
PipelinePcs ==
    { "transcribe", "context", "complete", "append", "synth", "send",
      "send_err" }

\* C11: a handler reads a frame only when the handling of the previous one is
\* over (it is at receive_text, with no call in flight); a frame is written
\* to its socket only while the frame that triggered it is the last one read,
\* so the frames go out in the order in which their triggers came in.
C11_OneFrameAtATime ==
    [][\A c \in Conns :
          /\ (message_data'[c] # message_data[c] /\ message_data'[c] # NoFrame)
                => /\ pc[c] = "recv"
                   /\ out'[c] = <<>>
                   /\ calls'[c] = <<>>
          /\ (out'[c] # out[c] /\ out'[c] # <<>>)
                => /\ message_data'[c] = message_data[c]
                   /\ pc[c] \in { "send", "send_err" }
                   /\ pc'[c] = "recv"
                   /\ out'[c] = Append(out[c], response[c])
          /\ (pc[c] \in PipelinePcs /\ pc'[c] \in PipelinePcs)
                => message_data'[c] = message_data[c]]_vars

\* two pipeline frames handled one after the other on one connection
C11_Witness ==
    \E c \in Conns :
        /\ Handled(c)
        /\ message_data[c].type = "voice_message"
        /\ Len(out[c]) = 1
        /\ find_one(conversations, session_id[c]) # 0
        /\ Len(conversations[find_one(conversations, session_id[c])].messages) = 2

\* the positions at which a handler is inside a port call or a History Store
\* call
CallPcs == { "transcribe", "context", "complete", "append", "synth" }

\* C12: while the handler of one connection is inside a Transcription,
\* Completion or Synthesis port call or a History Store call, the handler of
\* another connection can still take its step: read the frame its client
\* sent, or write the frame it has ready.
C12_CallsDoNotBlockOthers ==
    \A c \in Conns : \A d \in Conns \ {c} :
        pc[c] \in CallPcs =>
            /\ (pc[d] = "recv" /\ peer[d] /\ nrecv < MaxFrames)
                  => ENABLED Receive(d)
            /\ pc[d] = "send" => ENABLED Send(d)

\* C13: manager.disconnect on a connection that is not in the registry (it
\* was never registered, or it was removed already) raises no error and
\* leaves the list and the map as they were.
C13_DisconnectIdempotent ==
    [][\A c \in Conns :
          ( /\ ret'.op = "disconnect"
            /\ ret'.conn = c
            /\ ~ListHas(active_connections, c) )
          => /\ ret'.raised = "none"
             /\ active_connections' = active_connections
             /\ client_sessions' = client_sessions]_vars

\* C14: a send to a connection whose client is gone fails silently: nothing
\* is written, the failure is not raised to the caller (the handler goes on
\* to its next receive_text, where it learns of the disconnect), and a
\* handler that does end at the send leaves the registry without its
\* connection.
C14_SendToGoneClientIsSilent ==
    [][\A c \in Conns :
          (pc[c] \in { "send", "send_err" } /\ ~peer[c] /\ pc'[c] # pc[c])
          => /\ out'[c] = out[c]
             /\ pc'[c] \in { "recv", "closed" }
             /\ pc'[c] = "closed"
                   => /\ ~ListHas(active_connections', c)
                      /\ c \notin DOMAIN client_sessions']_vars

\* the handler of c was started and has not ended
Live(c) == pc[c] \notin { "init", "closed", "crashed" }

\* C15: the registry holds exactly the accepted connections whose handler
\* has not ended, once each in the list; the list and the map hold the same
\* connections; two live connections never share a session identifier; a
\* connection whose handler has ended is in neither structure.
C15_RegistryHoldsLiveConnections ==
    /\ \A c \in Conns : Live(c) <=> ListHas(active_connections, c)
    /\ \A i, j \in 1..Len(active_connections) :
          active_connections[i] = active_connections[j] => i = j
    /\ DOMAIN client_sessions
          = { active_connections[i] : i \in 1..Len(active_connections) }
    /\ \A c, d \in DOMAIN client_sessions :
          client_sessions[c] = client_sessions[d] => c = d
    /\ \A c \in Conns :
          pc[c] \in { "closed", "crashed" }
             => ~ListHas(active_connections, c) /\ c \notin DOMAIN client_sessions

\* the full exchange log of a session: the messages of its document
Log(coll, sid) ==
    IF find_one(coll, sid) = 0 THEN <<>>
    ELSE coll[find_one(coll, sid)].messages

IsSuffix(a, b) ==
    /\ Len(a) <= Len(b)
    /\ a = SubSeq(b, Len(b) - Len(a) + 1, Len(b))

\* C16: after any earlier creates, appends and deletes, add_message(s, e)
\* followed by get_conversation_history(s, k) with k >= 1 returns a sequence
\* that ends with e, also when s had no document before the append.
C16_AppendedEntryIsMostRecent ==
    (ret.op = "add_then_history" /\ ret.k >= 1)
        => /\ ret.msgs # <<>>
           /\ ret.msgs[Len(ret.msgs)].user_message = ret.entry.user_message
           /\ ret.msgs[Len(ret.msgs)].ai_response = ret.entry.ai_response
           /\ ret.msgs[Len(ret.msgs)].transcription = ret.entry.transcription

\* the append went to a log that held another entry, behind a document of
\* another session, and only the new entry was asked for
C16_Witness ==
    /\ ret.op = "add_then_history"
    /\ ret.k = 1
    /\ find_one(conversations, ret.sid) = 2
    /\ Len(Log(conversations, ret.sid)) = 2
    /\ Log(conversations, ret.sid)[1] # ret.entry
    /\ ret.msgs = << ret.entry >>

\* C17 as stated: for every session and every limit k the entries returned
\* are at most k and are a suffix of the session's log, oldest first.
C17_RecentIsBoundedSuffix ==
    (ret.op = "get_conversation_history" /\ ret.msgs # <<>>)
        => /\ Len(ret.msgs) <= ret.k
           /\ IsSuffix(ret.msgs, Log(conversations, ret.sid))

\* C17 (amended): for every session and every limit k >= 0 the result is the
\* last min(k, length) entries of the session's log in log order, empty when
\* the session has no document; for a negative limit it is the first
\* min(-k, length) entries.
C17_RecentIsBoundedSuffixForNaturalLimit ==
    ret.op = "get_conversation_history"
        => LET log == Log(conversations, ret.sid)
               n == Len(ret.msgs)
           IN  /\ find_one(conversations, ret.sid) = 0 => ret.msgs = <<>>
               /\ ret.k >= 0
                     => /\ n <= ret.k
                        /\ n = (IF ret.k < Len(log) THEN ret.k ELSE Len(log))
                        /\ \A i \in 1..n : ret.msgs[i] = log[Len(log) - n + i]
               /\ ret.k < 0
                     => /\ n = (IF 0 - ret.k < Len(log) THEN 0 - ret.k
                                ELSE Len(log))
                        /\ \A i \in 1..n : ret.msgs[i] = log[i]

\* one entry asked of a log of two different entries: the newer one
C17_Witness ==
    /\ ret.op = "get_conversation_history"
    /\ ret.k = 1
    /\ Len(Log(conversations, ret.sid)) = 2
    /\ Log(conversations, ret.sid)[1] # Log(conversations, ret.sid)[2]
    /\ ret.msgs = << Log(conversations, ret.sid)[2] >>

\* C18: for a session that has a conversation, whatever creates and appends
\* came before, delete_conversation called twice returns true, then false.
C18_DeleteTwiceTrueThenFalse ==
    (ret.op = "delete_twice" /\ ret.raised = "none" /\ ret.ok) => ~ret.again

\* C19: when the read of the recent context fails, the handler goes on to
\* the completion call with the prompt an empty history gives (the system
\* instruction and the user message, no context block); the failure itself
\* sets no reply and no frame.
C19_ContextFailureMeansEmptyContext ==
    [][\A c \in Conns :
          ContextReturns(c, FALSE)
          => /\ pc'[c] = "complete"
             /\ messages'[c]
                   = << [role |-> "system", content |-> SystemPrompt],
                        [role |-> "user", content |-> UserMessage(c).v] >>
             /\ messages'[c]
                   = BuildMessages(
                         get_conversation_context(<<>>, session_id[c],
                                                  ContextLimit),
                         UserMessage(c).v)
             /\ ai_response'[c] = ai_response[c]
             /\ response'[c] = response[c]
             /\ out'[c] = out[c]]_vars

\* the session has exchanges in the store, and the prompt of the completion
\* call in progress has no context block: the read failed
C19_Witness ==
    \E c \in Conns :
        /\ pc[c] = "complete"
        /\ Len(messages[c]) = 2
        /\ Log(conversations, session_id[c]) # <<>>

\* the frames written to the socket of c for the frame being handled, and
\* the one about to be written
FramesOf(c) == { out[c][i] : i \in 1..Len(out[c]) } \cup { response[c] }

\* C20: an ai_response frame has a transcription field exactly when the
\* frame that triggered it is an audio_data frame; the field is then the
\* transcript the Transcription Port returned, which is the user message of
\* the completion call; the ai_response to a voice_message frame has no such
\* field and no Transcription Port call was made for it.
C20_TranscriptionOnlyOnAudioReplies ==
    \A c \in Conns :
        /\ \A f \in FramesOf(c) :
              f.type = "ai_response"
              => /\ message_data[c].type \in PipelineTypes
                 /\ (f.transcription.k # "absent")
                       <=> (message_data[c].type = "audio_data")
                 /\ message_data[c].type = "audio_data"
                       => /\ f.transcription.k = "str"
                          /\ f.transcription.v = transcribed_text[c]
                          /\ InCalls(c, "transcribe")
                          /\ InCalls(c, "complete")
                 /\ message_data[c].type = "voice_message"
                       => /\ f.transcription = Absent
                          /\ ~InCalls(c, "transcribe")
        /\ (pc[c] = "complete" /\ message_data[c].type = "audio_data")
              => messages[c][Len(messages[c])]
                    = [role |-> "user", content |-> transcribed_text[c]]

\* an audio reply and a text reply have both gone out
C20_Witness ==
    \E c \in Conns : \E d \in Conns \ {c} :
        /\ Handled(c)
        /\ message_data[c].type = "audio_data"
        /\ Len(out[c]) = 1
        /\ out[c][1].type = "ai_response"
        /\ out[c][1].transcription = Str(<<"Hi">>)
        /\ Handled(d)
        /\ message_data[d].type = "voice_message"
        /\ Len(out[d]) = 1
        /\ out[d][1].type = "ai_response"
        /\ out[d][1].transcription = Absent

\* the default limit of GET /api/conversations/{session_id}
RestLimit == 50

\* C21: what GET /api/conversations/{session_id} returns for a session
\* changes only when the handler of the connection that owns the session
\* completes an append: connect, disconnect, the end of the handler and every
\* step of another connection leave it as it was, also after the owner is
\* closed (delete_conversation is not called by any handler).
C21_HistoryOutlivesConnection ==
    [][\A s \in SessionIds :
          get_conversation_history(conversations', s, RestLimit)
             # get_conversation_history(conversations, s, RestLimit)
          => \E c \in Conns :
                /\ session_id[c] = s
                /\ ListHas(active_connections, c)
                /\ pc[c] = "append"
                /\ pc'[c] # "append"
                /\ \A d \in Conns \ {c} : pc'[d] = pc[d]]_vars

\* a connection is closed and unregistered, its exchange is still in the
\* store, and another connection has appended to a log of its own since
C21_Witness ==
    \E c \in Conns : \E d \in Conns \ {c} :
        /\ pc[c] = "closed"
        /\ ~ListHas(active_connections, c)
        /\ Len(get_conversation_history(conversations, session_id[c], RestLimit)) = 1
        /\ find_one(conversations, session_id[c]) = 1
        /\ Handled(d)
        /\ Len(get_conversation_history(conversations, session_id[d], RestLimit)) = 1

\* C22: the log of a session only grows at its end: a step that changes it
\* is the append of the connection that owns the session, the log before is
\* a prefix of the log after, and the one exchange added is that of the frame
\* the connection is handling, the last one it received; so a connection's
\* exchanges lie in its log in the order in which its frames came in.
C22_LogIsAppendOnly ==
    [][\A s \in SessionIds :
          LET before == Log(conversations, s)
              after == Log(conversations', s)
          IN  after # before
              => /\ Len(after) = Len(before) + 1
                 /\ \A i \in 1..Len(before) : after[i] = before[i]
                 /\ \E c \in Conns :
                       /\ session_id[c] = s
                       /\ pc[c] = "append"
                       /\ message_data'[c] = message_data[c]
                       /\ after[Len(after)].user_message
                             = (IF message_data[c].type = "audio_data"
                                THEN Str(transcribed_text[c])
                                ELSE message_data[c].message)
                       /\ after[Len(after)].ai_response = ai_response[c]
                       /\ after[Len(after)].transcription
                             = (IF message_data[c].type = "audio_data"
                                THEN Str(transcribed_text[c])
                                ELSE Absent)]_vars

\* two different exchanges of one connection, the one of the frame received
\* last at the end of the log
C22_Witness ==
    \E c \in Conns :
        /\ Handled(c)
        /\ message_data[c].type = "voice_message"
        /\ Len(Log(conversations, session_id[c])) = 2
        /\ Log(conversations, session_id[c])[1].transcription # Absent
        /\ Log(conversations, session_id[c])[2].user_message
              = message_data[c].message
        /\ Log(conversations, session_id[c])[2].transcription = Absent

\* the append attempts made for the frame handler c is handling
AppendAttempts(c) ==
    { i \in 1..Len(calls[c]) : calls[c][i] \in { "append", "append!" } }

\* C23: an ai_response frame written to a socket comes after exactly one
\* append attempt made for the same inbound frame, under the connection's
\* session, with the frame's user message and the reply text the frame
\* carries; a handling that ends in an error frame, a pong or no frame made
\* no append attempt.  The attempt is made with the reply and for the frame
\* that the handler has when it reaches the append, and it is made once.
C23_OneAppendAttemptPerReply ==
    /\ [](\A c \in Conns :
            /\ \A k \in 1..Len(out[c]) :
                  out[c][k].type = "ai_response"
                  => /\ Cardinality(AppendAttempts(c)) = 1
                     /\ out[c][k].message = ai_response[c]
                     /\ out[c][k].session_id = session_id[c]
                     /\ InCalls(c, "append")
                           => LET log == Log(conversations, session_id[c])
                              IN  /\ log # <<>>
                                  /\ log[Len(log)].user_message
                                        = (IF message_data[c].type = "audio_data"
                                           THEN Str(transcribed_text[c])
                                           ELSE message_data[c].message)
                                  /\ log[Len(log)].ai_response
                                        = out[c][k].message
            /\ (Handled(c)
                  /\ \A k \in 1..Len(out[c]) : out[c][k].type # "ai_response")
                  => AppendAttempts(c) = {})
    /\ [][\A c \in Conns :
            (pc[c] = "append" /\ pc'[c] # "append")
            => /\ Cardinality(AppendAttempts(c)) = 0
               /\ calls'[c] \in { Append(calls[c], "append"),
                                  Append(calls[c], "append!") }
               /\ ai_response'[c] = ai_response[c]
               /\ message_data'[c] = message_data[c]
               /\ session_id'[c] = session_id[c]]_vars

\* the reply to an audio frame has gone out after its exchange was stored
C23_Witness ==
    \E c \in Conns :
        /\ Handled(c)
        /\ message_data[c].type = "audio_data"
        /\ Len(out[c]) = 1
        /\ out[c][1].type = "ai_response"
        /\ Cardinality(AppendAttempts(c)) = 1
        /\ InCalls(c, "append")
        /\ Len(Log(conversations, session_id[c])) = 1
        /\ Log(conversations, session_id[c])[1].ai_response = out[c][1].message

====
